---- MODULE Spec2Model ----
(***************************************************************************)
(* Model of the OJNet packet codecs (package ojnet): the byte-level        *)
(* Encode/Decode of ConnectionRequest, ConnectionAccepted,                 *)
(* ConnectionRejected, Acknowledge and ChannelOp packets, the shared       *)
(* decode preamble checkPidAndLength, and the bytes.Buffer / binary        *)
(* operations they are written with.                                       *)
(*                                                                         *)
(* Machine words: a byte is a number 0..255.  A uint32 is a tuple of two   *)
(* and a uint64 a tuple of four 16-bit half-words, most significant first, *)
(* so that every value of the full width is representable: the number 42   *)
(* as a uint64 is <<0, 0, 0, 42>>.                                         *)
(***************************************************************************)
EXTENDS Integers, Sequences, FiniteSets, TLC

VARIABLES op, kind, sent, data, recv0, recv, err, panicked

vars == <<op, kind, sent, data, recv0, recv, err, panicked>>

(***************************************************************************)
(* Bounds of the explored inputs.                                          *)
(***************************************************************************)
\* longest byte buffer handed to a Decode
MaxBuf == 11
\* longest sequenceIds list drawn from U32Sample (the boundary lengths
\* 255 and 256 are added by AckInputs)
MaxIds == 2

(***************************************************************************)
(* Errors.  EncodeDecodeError carries a Reason string; the three texts the *)
(* code builds are kept apart by `text`, with the numbers they embed.      *)
(***************************************************************************)
Nil == [text |-> "nil", expected |-> 0, got |-> 0]

EncodeDecodeError(text, expected, got) ==
    [text |-> text, expected |-> expected, got |-> got]

(***************************************************************************)
(* bytes.Buffer, modelled by its unread bytes.                             *)
(***************************************************************************)
\* Buffer.ReadByte: the next byte, or 0 and io.EOF on an empty buffer.
ReadByte(buf) ==
    IF Len(buf) = 0
    THEN [b |-> 0, eof |-> TRUE, rest |-> buf]
    ELSE [b |-> Head(buf), eof |-> FALSE, rest |-> Tail(buf)]

\* bytes.IndexByte: position of the first occurrence of delim in buf, 0 if none
IndexByte(buf, delim) ==
    LET hits == {i \in 1..Len(buf) : buf[i] = delim}
    IN  IF hits = {} THEN 0
        ELSE CHOOSE i \in hits : \A j \in hits : i <= j

\* Buffer.ReadBytes(delim): reads until the first occurrence of delim,
\* returning the data up to and including the delimiter; without a
\* delimiter, the whole rest of the buffer and io.EOF.
ReadBytes(buf, delim) ==
    LET i == IndexByte(buf, delim)
    IN  IF i = 0
        THEN [line |-> buf, eof |-> TRUE, rest |-> <<>>]
        ELSE [line |-> SubSeq(buf, 1, i), eof |-> FALSE,
              rest |-> SubSeq(buf, i + 1, Len(buf))]

(***************************************************************************)
(* encoding/binary, big endian.                                            *)
(***************************************************************************)
\* the two bytes of one 16-bit half-word
HalfBytes(h) == <<h \div 256, h % 256>>

\* binary.BigEndian.PutUint32 as used by WriteUInt32
WriteUInt32(buf, val) == buf \o HalfBytes(val[1]) \o HalfBytes(val[2])

\* binary.BigEndian.PutUint64 as used by WriteUInt64
WriteUInt64(buf, val) ==
    buf \o HalfBytes(val[1]) \o HalfBytes(val[2])
        \o HalfBytes(val[3]) \o HalfBytes(val[4])

\* binary.BigEndian.Uint32 panics (index out of range) unless len(b) >= 4
Uint32Panics(b) == Len(b) < 4
Uint32(b) == <<b[1] * 256 + b[2], b[3] * 256 + b[4]>>

\* binary.BigEndian.Uint64 panics (index out of range) unless len(b) >= 8
Uint64Panics(b) == Len(b) < 8
Uint64(b) ==
    <<b[1] * 256 + b[2], b[3] * 256 + b[4],
      b[5] * 256 + b[6], b[7] * 256 + b[8]>>

(***************************************************************************)
(* Packet ids and lengths.                                                 *)
(***************************************************************************)
ConnectionRequestPid == 0
ConnectionAcceptedPid == 1
ConnectionRejectedPid == 2
AcknowledgedPid == 10
ChannelOperationPid == 11
ContainerPid == 12

connectionRequestLength == 10
connectionAcceptedLength == 9
connectionRejectedLength == 2
channelOperationLength == 3
acknowledgedBaseLength == 6

\* the ids the comments above each packet type document ("ID: 0x01", ...)
DocumentedId ==
    [ConnectionRequest |-> 1, ConnectionAccepted |-> 2,
     ConnectionRejected |-> 3, Acknowledge |-> 10, ChannelOp |-> 11]

\* the id constants the codecs actually use
CodePid ==
    [ConnectionRequest |-> ConnectionRequestPid,
     ConnectionAccepted |-> ConnectionAcceptedPid,
     ConnectionRejected |-> ConnectionRejectedPid,
     Acknowledge |-> AcknowledgedPid, ChannelOp |-> ChannelOperationPid]

\* checkPidAndLength with the id check first and no upper length check
checkPidAndLengthLax(buf, expectedId, expectedLength, atLeast) ==
    LET r == ReadByte(buf)
    IN  IF r.b # expectedId
        THEN [err |-> EncodeDecodeError("id", expectedId, r.b), buf |-> r.rest]
        ELSE IF Len(buf) < expectedLength
        THEN [err |-> EncodeDecodeError("length at least", expectedLength, 0),
              buf |-> buf]
        ELSE [err |-> Nil, buf |-> r.rest]

\* the shared decode preamble: length (exact or minimum), then the id byte
checkPidAndLength(buf, expectedId, expectedLength, atLeast) ==
    IF ~atLeast /\ Len(buf) # expectedLength
    THEN [err |-> EncodeDecodeError("length", expectedLength, 0), buf |-> buf]
    ELSE IF Len(buf) < expectedLength
    THEN [err |-> EncodeDecodeError("length at least", expectedLength, 0),
          buf |-> buf]
    ELSE LET r == ReadByte(buf)
         IN  IF r.b # expectedId
             THEN [err |-> EncodeDecodeError("id", expectedId, r.b),
                   buf |-> r.rest]
             ELSE [err |-> Nil, buf |-> r.rest]

\* what an Encode returns, and what a Decode leaves behind
Encoded(bytes, e) == [bytes |-> bytes, err |-> e]
Decoded(packet, e, panic) == [packet |-> packet, err |-> e, panic |-> panic]

(***************************************************************************)
(* ConnectionRequestPacket                                                 *)
(***************************************************************************)
ConnectionRequestEncode(packet) ==
    Encoded(WriteUInt64(<<ConnectionRequestPid>>, packet.ClientId)
                \o <<packet.ProtocolVersion>>, Nil)

ConnectionRequestDecode(packet, bytes) ==
    LET c == checkPidAndLength(bytes, ConnectionRequestPid,
                               connectionRequestLength, FALSE)
    IN  IF c.err # Nil THEN Decoded(packet, c.err, FALSE)
        ELSE LET clientIdBytes == ReadBytes(c.buf, 8)
             IN  IF Uint64Panics(clientIdBytes.line)
                 THEN Decoded(packet, Nil, TRUE)
                 ELSE LET pVer == ReadByte(clientIdBytes.rest)
                      IN  Decoded([ClientId |-> Uint64(clientIdBytes.line),
                                   ProtocolVersion |-> pVer.b], Nil, FALSE)

(***************************************************************************)
(* ConnectionAcceptedPacket                                                *)
(***************************************************************************)
ConnectionAcceptedEncode(packet) ==
    Encoded(WriteUInt64(<<ConnectionAcceptedPid>>, packet.ServerId), Nil)

ConnectionAcceptedDecode(packet, bytes) ==
    LET c == checkPidAndLength(bytes, ConnectionAcceptedPid,
                               connectionAcceptedLength, FALSE)
    IN  IF c.err # Nil THEN Decoded(packet, c.err, FALSE)
        ELSE LET serverIdBytes == ReadBytes(c.buf, 8)
             IN  IF Uint64Panics(serverIdBytes.line)
                 THEN Decoded(packet, Nil, TRUE)
                 ELSE Decoded([ServerId |-> Uint64(serverIdBytes.line)],
                              Nil, FALSE)

(***************************************************************************)
(* ConnectionRejectedPacket                                                *)
(***************************************************************************)
ConnectionRejectedEncode(packet) ==
    Encoded(<<ConnectionRejectedPid, packet.reason>>, Nil)

ConnectionRejectedDecode(packet, bytes) ==
    LET c == checkPidAndLength(bytes, ConnectionRejectedPid,
                               connectionRejectedLength, FALSE)
    IN  IF c.err # Nil THEN Decoded(packet, c.err, FALSE)
        ELSE Decoded([reason |-> ReadByte(c.buf).b], Nil, FALSE)

(***************************************************************************)
(* AcknowledgePacket                                                       *)
(***************************************************************************)
\* the range loop of Encode: WriteUInt32 of every id, in order; byte j of
\* what the loop appends is byte (j-1) % 4 of the id at index (j-1) \div 4
WriteSequenceIds(buf, ids) ==
    buf \o [j \in 1..(4 * Len(ids)) |->
                WriteUInt32(<<>>, ids[((j - 1) \div 4) + 1])[((j - 1) % 4) + 1]]

AcknowledgeEncode(packet) ==
    IF Len(packet.sequenceIds) < 1
    THEN Encoded(<<>>, EncodeDecodeError("sequenceIds array is empty!", 0, 0))
    ELSE Encoded(WriteSequenceIds(
                     <<AcknowledgedPid, Len(packet.sequenceIds) % 256>>,
                     packet.sequenceIds), Nil)

RECURSIVE ReadSequenceIds(_, _, _, _)
\* the for loop of Decode: ReadBytes(4) and Uint32 for i = 1..sequenceCount,
\* stopping in a panic when Uint32 is handed fewer than 4 bytes
ReadSequenceIds(buf, ids, i, sequenceCount) ==
    IF i > sequenceCount THEN Decoded([sequenceIds |-> ids], Nil, FALSE)
    ELSE LET sequenceBytes == ReadBytes(buf, 4)
         IN  IF Uint32Panics(sequenceBytes.line)
             THEN Decoded([sequenceIds |-> ids], Nil, TRUE)
             ELSE ReadSequenceIds(sequenceBytes.rest,
                                  [ids EXCEPT ![i] = Uint32(sequenceBytes.line)],
                                  i + 1, sequenceCount)

\* Decode without the early return on a zero count
AcknowledgeDecodeNoZeroCheck(packet, bytes) ==
    LET c == checkPidAndLength(bytes, AcknowledgedPid,
                               acknowledgedBaseLength, TRUE)
    IN  IF c.err # Nil THEN Decoded(packet, c.err, FALSE)
        ELSE LET sequenceCount == ReadByte(c.buf)
             IN  ReadSequenceIds(sequenceCount.rest,
                                 [i \in 1..sequenceCount.b |-> <<0, 0>>],
                                 1, sequenceCount.b)

AcknowledgeDecode(packet, bytes) ==
    LET c == checkPidAndLength(bytes, AcknowledgedPid,
                               acknowledgedBaseLength, TRUE)
    IN  IF c.err # Nil THEN Decoded(packet, c.err, FALSE)
        ELSE LET sequenceCount == ReadByte(c.buf)
             IN  IF sequenceCount.b < 1 THEN Decoded(packet, Nil, FALSE)
                 ELSE ReadSequenceIds(sequenceCount.rest,
                                      [i \in 1..sequenceCount.b |-> <<0, 0>>],
                                      1, sequenceCount.b)

(***************************************************************************)
(* ChannelOpPacket                                                         *)
(***************************************************************************)
OPEN_CHANNEL == 0
CLOSE_CHANNEL == 1
RESET_ORDERED_IDS == 2

ChannelOpEncode(packet) ==
    Encoded(<<ChannelOperationPid, packet.channel>>, Nil)

ChannelOpDecode(packet, bytes) ==
    LET c == checkPidAndLength(bytes, ChannelOperationPid,
                               channelOperationLength, FALSE)
    IN  IF c.err # Nil THEN Decoded(packet, c.err, FALSE)
        ELSE Decoded([packet EXCEPT !.channel = ReadByte(c.buf).b], Nil, FALSE)

(***************************************************************************)
(* The Packet interface: Encode and Decode by packet type.                 *)
(***************************************************************************)
Kinds == {"ConnectionRequest", "ConnectionAccepted", "ConnectionRejected",
          "Acknowledge", "ChannelOp"}

Encode(k, packet) ==
    CASE k = "ConnectionRequest" -> ConnectionRequestEncode(packet)
      [] k = "ConnectionAccepted" -> ConnectionAcceptedEncode(packet)
      [] k = "ConnectionRejected" -> ConnectionRejectedEncode(packet)
      [] k = "Acknowledge" -> AcknowledgeEncode(packet)
      [] k = "ChannelOp" -> ChannelOpEncode(packet)

Decode(k, packet, bytes) ==
    CASE k = "ConnectionRequest" -> ConnectionRequestDecode(packet, bytes)
      [] k = "ConnectionAccepted" -> ConnectionAcceptedDecode(packet, bytes)
      [] k = "ConnectionRejected" -> ConnectionRejectedDecode(packet, bytes)
      [] k = "Acknowledge" -> AcknowledgeDecode(packet, bytes)
      [] k = "ChannelOp" -> ChannelOpDecode(packet, bytes)

\* the zero value of each packet type: the fresh packet a receiver decodes into
Fresh(k) ==
    CASE k = "ConnectionRequest" ->
             [ClientId |-> <<0, 0, 0, 0>>, ProtocolVersion |-> 0]
      [] k = "ConnectionAccepted" -> [ServerId |-> <<0, 0, 0, 0>>]
      [] k = "ConnectionRejected" -> [reason |-> 0]
      [] k = "Acknowledge" -> [sequenceIds |-> <<>>]
      [] k = "ChannelOp" -> [operation |-> OPEN_CHANNEL, channel |-> 0]

\* the exact length the fixed-size kinds' Decode requires
FixedLength ==
    [ConnectionRequest |-> connectionRequestLength,
     ConnectionAccepted |-> connectionAcceptedLength,
     ConnectionRejected |-> connectionRejectedLength,
     ChannelOp |-> channelOperationLength]

FixedKinds == Kinds \ {"Acknowledge"}

(***************************************************************************)
(* Inputs.                                                                 *)
(***************************************************************************)
U8Sample == {0, 1, 8, 255}

U64Sample ==
    {<<0, 0, 0, 0>>, <<0, 0, 0, 42>>, <<0, 0, 0, 8>>, <<0, 0, 0, 2048>>,
     <<0, 8, 0, 7>>, <<65535, 65535, 65535, 65535>>}

U32Sample == {<<0, 7>>, <<0, 99>>, <<0, 4>>, <<0, 1024>>, <<65535, 65535>>}

RECURSIVE SeqsUpTo(_, _)
\* all sequences over S of length at most n
SeqsUpTo(S, n) ==
    IF n = 0 THEN {<<>>}
    ELSE LET shorter == SeqsUpTo(S, n - 1)
         IN  shorter \cup {Append(s, x) : s \in {t \in shorter : Len(t) = n - 1},
                                          x \in S}

\* sequenceIds lists: every list up to MaxIds, and lists at the boundary of
\* the one-byte count
AckInputs ==
    SeqsUpTo(U32Sample, MaxIds)
        \cup {[i \in 1..n |-> <<0, 7>>] : n \in {255, 256}}

PacketInputs(k) ==
    CASE k = "ConnectionRequest" ->
             {[ClientId |-> c, ProtocolVersion |-> v] :
                  c \in U64Sample, v \in U8Sample}
      [] k = "ConnectionAccepted" -> {[ServerId |-> s] : s \in U64Sample}
      [] k = "ConnectionRejected" -> {[reason |-> r] : r \in 0..2}
      [] k = "Acknowledge" -> {[sequenceIds |-> s] : s \in AckInputs}
      [] k = "ChannelOp" ->
             {[operation |-> o, channel |-> c] :
                  o \in {OPEN_CHANNEL, CLOSE_CHANNEL, RESET_ORDERED_IDS},
                  c \in U8Sample}

\* a receiver that already holds values, to tell a write from no write
Used(k) ==
    CASE k = "ConnectionRequest" ->
             [ClientId |-> <<1, 2, 3, 4>>, ProtocolVersion |-> 5]
      [] k = "ConnectionAccepted" -> [ServerId |-> <<1, 2, 3, 4>>]
      [] k = "ConnectionRejected" -> [reason |-> 1]
      [] k = "Acknowledge" -> [sequenceIds |-> <<<<0, 5>>, <<0, 6>>>>]
      [] k = "ChannelOp" -> [operation |-> RESET_ORDERED_IDS, channel |-> 9]

Receivers(k) == {Fresh(k), Used(k)}

IdSample == {0, 1, 2, 3, 10, 11}
ByteSample == {0, 1, 2, 4, 8}

\* byte buffers of length n: a first byte from IdSample, then zeros except
\* at up to two positions
Buffers(n) ==
    IF n = 0 THEN {<<>>}
    ELSE {[i \in 1..n |-> IF i = 1 THEN id
                          ELSE IF i = p THEN v
                          ELSE IF i = q THEN w ELSE 0] :
              id \in IdSample, p \in 1..n, q \in 1..n,
              v \in ByteSample, w \in ByteSample}

BufferInputs == UNION {Buffers(n) : n \in 0..MaxBuf}

(***************************************************************************)
(* The state machine: one codec call on chosen inputs, and after a         *)
(* successful Encode, a Decode of its output into a fresh packet.          *)
(***************************************************************************)
NoPacket == <<>>

Init ==
    /\ op = "idle"
    /\ kind = "none"
    /\ sent = NoPacket
    /\ data = <<>>
    /\ recv0 = NoPacket
    /\ recv = NoPacket
    /\ err = Nil
    /\ panicked = FALSE

\* packet.Encode() for a packet of kind k
DoEncode(k) ==
    /\ op = "idle"
    /\ \E packet \in PacketInputs(k) :
           LET r == Encode(k, packet)
           IN  /\ op' = "encode"
               /\ kind' = k
               /\ sent' = packet
               /\ data' = r.bytes
               /\ err' = r.err
    /\ UNCHANGED <<recv0, recv, panicked>>

\* packet.Decode(bytes) for a receiver of kind k
DoDecode(k) ==
    /\ op = "idle"
    /\ \E packet \in Receivers(k), bytes \in BufferInputs :
           LET r == Decode(k, packet, bytes)
           IN  /\ op' = "decode"
               /\ kind' = k
               /\ data' = bytes
               /\ recv0' = packet
               /\ recv' = r.packet
               /\ err' = r.err
               /\ panicked' = r.panic
    /\ UNCHANGED sent

\* Decode, on a fresh packet, of the bytes the Encode just returned
DecodeEncoded ==
    /\ op = "encode"
    /\ err = Nil
    /\ LET r == Decode(kind, Fresh(kind), data)
       IN  /\ op' = "roundtrip"
           /\ recv0' = Fresh(kind)
           /\ recv' = r.packet
           /\ err' = r.err
           /\ panicked' = r.panic
    /\ UNCHANGED <<kind, sent, data>>

EncodeConnectionRequest == DoEncode("ConnectionRequest")
EncodeConnectionAccepted == DoEncode("ConnectionAccepted")
EncodeConnectionRejected == DoEncode("ConnectionRejected")
EncodeAcknowledge == DoEncode("Acknowledge")
EncodeChannelOp == DoEncode("ChannelOp")
DecodeConnectionRequest == DoDecode("ConnectionRequest")
DecodeConnectionAccepted == DoDecode("ConnectionAccepted")
DecodeConnectionRejected == DoDecode("ConnectionRejected")
DecodeAcknowledge == DoDecode("Acknowledge")
DecodeChannelOp == DoDecode("ChannelOp")

Next ==
    \/ EncodeConnectionRequest
    \/ EncodeConnectionAccepted
    \/ EncodeConnectionRejected
    \/ EncodeAcknowledge
    \/ EncodeChannelOp
    \/ DecodeConnectionRequest
    \/ DecodeConnectionAccepted
    \/ DecodeConnectionRejected
    \/ DecodeAcknowledge
    \/ DecodeChannelOp
    \/ DecodeEncoded

Spec == Init /\ [][Next]_vars

(***************************************************************************)
(* Properties.                                                             *)
(***************************************************************************)
\* a packet value the codec is meant to carry: any field values, and for
\* Acknowledge between 1 and 255 sequence ids
ValidPacket(k, packet) ==
    k = "Acknowledge" =>
        (Len(packet.sequenceIds) >= 1 /\ Len(packet.sequenceIds) <= 255)

\* C1: round trip - Decode, on a fresh packet, of the bytes p.Encode()
\* returned for a valid packet p returns no error and yields a packet equal
\* to p field for field.
C1_RoundTrip ==
    (op = "roundtrip" /\ ValidPacket(kind, sent)) =>
        (~panicked /\ err = Nil /\ recv = sent)

\* C2: no Decode ever panics - for every input byte sequence and every
\* kind, Decode returns nil or an EncodeDecodeError and never indexes past
\* the bytes it obtained from the buffer.
C2_NoDecodePanics == (op \in {"decode", "roundtrip"}) => ~panicked

\* C3: the first byte of every Encode output, and the only first byte the
\* kind's Decode accepts, is the documented id of the kind (0x01, 0x02, 0x03,
\* 0x0A, 0x0B); ConnectionRequest{42, 0} encodes to [1, 0,0,0,0,0,0,0,42, 0].
C3_KindIdBytes ==
    /\ (op = "encode" /\ err = Nil) =>
           (Len(data) >= 1 /\ data[1] = DocumentedId[kind])
    /\ (op = "decode" /\ err = Nil /\ ~panicked) =>
           (Len(data) >= 1 /\ data[1] = DocumentedId[kind])
    /\ (op = "encode" /\ kind = "ConnectionRequest"
            /\ sent = [ClientId |-> <<0, 0, 0, 42>>, ProtocolVersion |-> 0]) =>
           data = <<1, 0, 0, 0, 0, 0, 0, 0, 42, 0>>

\* C4: Encode returns exactly 10 bytes for ConnectionRequest, 9 for
\* ConnectionAccepted, 2 for ConnectionRejected and 3 for ChannelOp, the
\* exact length the kind's own Decode requires.
C4_FixedLengths ==
    (op = "encode" /\ kind \in FixedKinds) =>
        (err = Nil /\ Len(data) = FixedLength[kind])

C6_AckLayout ==
    (op = "encode" /\ kind = "Acknowledge" /\ err = Nil) =>
        LET n == Len(sent.sequenceIds)
        IN  /\ Len(data) = 2 + 4 * n
            /\ data[1] = 10
            /\ data[2] = n
            /\ n <= 255
            /\ \A i \in 1..n :
                   Uint32(SubSeq(data, 4 * i - 1, 4 * i + 2))
                       = sent.sequenceIds[i]
            /\ (sent.sequenceIds = <<<<0, 7>>, <<0, 99>>>> =>
                    data = <<10, 2, 0, 0, 0, 7, 0, 0, 0, 99>>)

\* AcknowledgePacket.Encode on zero sequence ids returns an error and no bytes
AckEncodeRejectsEmpty ==
    (op = "encode" /\ kind = "Acknowledge" /\ Len(sent.sequenceIds) = 0) =>
        (err # Nil /\ data = <<>>)

\* C7 (as claimed): Encode on zero sequence ids returns an error and no bytes,
\* whereas Decode of the 2-byte buffer [0x0A, 0x00] into a fresh packet
\* returns no error and leaves an empty id sequence.
C7_Original ==
    /\ AckEncodeRejectsEmpty
    /\ (op = "decode" /\ kind = "Acknowledge" /\ data = <<10, 0>>
            /\ recv0 = Fresh(kind)) =>
           (err = Nil /\ ~panicked /\ recv.sequenceIds = <<>>)

\* C7 (amended): Encode on zero sequence ids returns an error and no bytes;
\* Decode of [0x0A, 0x00] is rejected for being shorter than the base length
\* of 6; Decode of a buffer of at least 6 bytes that starts 0x0A, 0x00
\* returns no error and leaves the id sequence as it was (empty in a fresh
\* packet).
C7_Amended ==
    /\ AckEncodeRejectsEmpty
    /\ (op = "decode" /\ kind = "Acknowledge" /\ data = <<10, 0>>) =>
           /\ err = EncodeDecodeError("length at least",
                                      acknowledgedBaseLength, 0)
           /\ ~panicked
           /\ recv = recv0
    /\ (op = "decode" /\ kind = "Acknowledge"
            /\ Len(data) >= acknowledgedBaseLength
            /\ data[1] = AcknowledgedPid /\ data[2] = 0) =>
           (err = Nil /\ ~panicked /\ recv = recv0)

\* C7 witness: a zero count in a buffer long enough, decoded into a packet
\* that already holds ids.
C7_Witness ==
    /\ op = "decode"
    /\ kind = "Acknowledge"
    /\ Len(data) >= acknowledgedBaseLength
    /\ data[1] = AcknowledgedPid
    /\ data[2] = 0
    /\ recv0 = Used(kind)
    /\ err = Nil

\* C8: for every buffer that passes the initial length/id check and whose
\* count byte c declares more ids than the bytes after it hold (fewer than
\* 4c), AcknowledgePacket.Decode returns an error, does not read past the
\* buffer and does not populate the id sequence.
C8_CountRevalidation ==
    (op = "decode" /\ kind = "Acknowledge"
         /\ Len(data) >= acknowledgedBaseLength /\ data[1] = AcknowledgedPid
         /\ Len(data) - 2 < 4 * data[2]) =>
        (err # Nil /\ ~panicked /\ recv = recv0)

\* C9: the encoded ChannelOp is the id byte, the operation byte and the
\* channel byte, and Decode of a well-formed 3-byte buffer sets operation
\* from the operation byte and channel from the channel byte.
C9_ChannelOpFields ==
    /\ (op = "encode" /\ kind = "ChannelOp") =>
           data = <<ChannelOperationPid, sent.operation, sent.channel>>
    /\ (op = "decode" /\ kind = "ChannelOp"
            /\ Len(data) = channelOperationLength
            /\ data[1] = ChannelOperationPid /\ data[2] \in 0..2) =>
           /\ err = Nil
           /\ recv = [operation |-> data[2], channel |-> data[3]]

====
